---------------------------- MODULE Spec2Model ----------------------------
(***************************************************************************)
(* A model of sp.fem's element module (src/fem/element.py): the reference  *)
(* elements (their metadata and lbasis), the wrappers ElementH1Vec and     *)
(* ElementTriDG, and the global basis transforms (gbasis) of ElementH1,    *)
(* ElementH1Vec and ElementHdiv.                                           *)
(*                                                                         *)
(* Conventions.                                                            *)
(*  - A Python dict or array indexed 0..k-1 is a sequence of length k; the *)
(*    entry with Python index j is At(s, j) == s[j+1].                     *)
(*  - A batch of reference points is one point with integer coordinates;   *)
(*    X is the sequence of its coordinates (one entry per row of the       *)
(*    array, or per key of the dict).                                      *)
(*  - Floats are exact rationals <<num, den>> with den > 0 in lowest       *)
(*    terms; a float division by zero gives numpy's inf, -inf or nan,      *)
(*    written <<1,0>>, <<-1,0>>, <<0,0>>.                                  *)
(*  - A raised exception is a result whose st is the exception's class.    *)
(***************************************************************************)
EXTENDS Integers, Sequences, FiniteSets, TLC

VARIABLES elem,   \* the element object constructed first (a scalar or Hdiv element)
          wrap,   \* a wrapper object built on elem (ElementH1Vec or ElementTriDG), or an
                  \* assembler built for elem, or NoObj
          op,     \* the last call made and its arguments
          res     \* what that call returned or raised

vars == <<elem, wrap, op, res>>

-----------------------------------------------------------------------------
(* Bounds of the model *)

\* orders p of ElementTriPp(p) range over 0..MaxP
MaxP == 5
\* orders p of ElementTriPp(p) range over 0..MaxOrder where only lbasis is called
MaxOrder == 10
\* the coordinates of a reference point are all the same value in 1..MaxCoord
MaxCoord == 1
\* the coordinates of the points of the grid range over -1..MaxGrid
MaxGrid == 2
\* mapping.dim ranges over 0..MaxMapDim
MaxMapDim == 3
\* nested self.lbasis calls allowed before the interpreter gives up (RuntimeError)
RecursionLimit == 3

-----------------------------------------------------------------------------
(* Exact arithmetic standing for the floats *)

Abs(a) == IF a < 0 THEN -a ELSE a

Sign(a) == IF a < 0 THEN -1 ELSE IF a > 0 THEN 1 ELSE 0

Max(a, b) == IF a >= b THEN a ELSE b

RECURSIVE GCD(_, _)
GCD(a, b) == IF b = 0 THEN a ELSE GCD(b, a % b)

\* a/b on ints as Python 2 divides them: the floor of the quotient
RFloorDivision(a, b) == <<a \div b, 1>>

\* the float a/b (b # 0 here); numpy's a/0 is in RDiv
R(a, b) ==
    LET g == GCD(Abs(a), Abs(b))
        s == IF b < 0 THEN -1 ELSE 1
    IN  <<(s * a) \div g, (s * b) \div g>>

RInt(a) == <<a, 1>>

RAdd(x, y) == R(x[1] * y[2] + y[1] * x[2], x[2] * y[2])

RSub(x, y) == R(x[1] * y[2] - y[1] * x[2], x[2] * y[2])

RMul(x, y) == R(x[1] * y[1], x[2] * y[2])

\* numpy true division of floats: x/0 is inf, -inf or nan (a warning, no exception)
RDiv(x, y) ==
    IF y[1] = 0 THEN <<Sign(x[1]), 0>>
    ELSE R(x[1] * y[2], x[2] * y[1])

IsFinite(x) == x[2] # 0

RZero == <<0, 1>>

ROne == <<1, 1>>

At(s, j) == s[j + 1]

HasKey(s, j) == j >= 0 /\ j < Len(s)


-----------------------------------------------------------------------------
(* Element objects: class attributes and constructors *)

\* an attribute the object does not have
Absent == "absent"

\* class Element: the attribute defaults every element inherits
Element ==
    [cls |-> "Element", p |-> Absent, dim |-> 0, maxdeg |-> 0, max_deg |-> Absent,
     n_dofs |-> 0, i_dofs |-> 0, f_dofs |-> 0, e_dofs |-> 0, nbdofs |-> Absent]

ElementTriRT0 == [Element EXCEPT !.cls = "TriRT0", !.maxdeg = 1, !.f_dofs = 1]

ElementQ1 == [Element EXCEPT !.cls = "Q1", !.maxdeg = 2, !.n_dofs = 1]

ElementQ2 ==
    [Element EXCEPT !.cls = "Q2", !.maxdeg = 3, !.n_dofs = 1, !.f_dofs = 1, !.i_dofs = 1]

\* ElementTriPp.__init__(p); Python 2's / on ints is floor division
ElementTriPp(p) ==
    LET n_dofs == 1
        f_dofs == Max(p - 1, 0)
        i_dofs == Max(((p - 1) * (p - 2)) \div 2, 0)
    IN  [Element EXCEPT !.cls = "TriPp", !.p = p, !.maxdeg = p, !.n_dofs = n_dofs,
                        !.f_dofs = f_dofs, !.i_dofs = i_dofs, !.dim = 2,
                        !.nbdofs = 3 * n_dofs + 3 * f_dofs + i_dofs]

\* max_deg (not maxdeg) is what the class body sets
ElementTetP0 == [Element EXCEPT !.cls = "TetP0", !.i_dofs = 1, !.max_deg = 1]

ElementTriP0 == [Element EXCEPT !.cls = "TriP0", !.i_dofs = 1, !.max_deg = 1]

ElementTriMini ==
    [Element EXCEPT !.cls = "TriMini", !.dim = 2, !.n_dofs = 1, !.i_dofs = 1, !.max_deg = 3]

ElementTetP2 ==
    [Element EXCEPT !.cls = "TetP2", !.dim = 3, !.n_dofs = 1, !.e_dofs = 1, !.maxdeg = 2]

ElementLineP1 == [Element EXCEPT !.cls = "LineP1", !.n_dofs = 1, !.dim = 1, !.maxdeg = 1]

ElementTriP1 == [Element EXCEPT !.cls = "TriP1", !.n_dofs = 1, !.dim = 2, !.maxdeg = 1]

ElementTetP1 == [Element EXCEPT !.cls = "TetP1", !.n_dofs = 1, !.maxdeg = 1, !.dim = 3]

\* ElementH1Vec.__init__(elem): every dof count times elem.dim as it is now
ElementH1Vec(e) ==
    [Element EXCEPT !.cls = "H1Vec", !.dim = e.dim,
                    !.n_dofs = e.n_dofs * e.dim, !.f_dofs = e.f_dofs * e.dim,
                    !.i_dofs = e.i_dofs * e.dim, !.e_dofs = e.e_dofs * e.dim,
                    !.maxdeg = e.maxdeg]

\* a wrapper that keeps the base element's counts next to the new i_dofs
ElementTriDGKeepingCounts(e) ==
    [e EXCEPT !.cls = "TriDG", !.i_dofs = 3 * e.n_dofs + 3 * e.f_dofs + e.i_dofs,
              !.dim = 2]

\* ElementTriDG.__init__(elem): maxdeg, n_dofs, e_dofs, f_dofs stay the class defaults
ElementTriDG(e) ==
    [Element EXCEPT !.cls = "TriDG", !.i_dofs = 3 * e.n_dofs + 3 * e.f_dofs + e.i_dofs,
                    !.dim = 2]

\* no wrapper has been built
NoObj == [Element EXCEPT !.cls = "none"]

ClosedForm ==
    {ElementLineP1, ElementTriP1, ElementTetP1, ElementTetP2, ElementQ1, ElementQ2,
     ElementTriMini, ElementTriP0, ElementTetP0, ElementTriRT0}

\* every object a program can construct directly, within the bound on p
Constructed == ClosedForm \cup {ElementTriPp(p) : p \in 0..MaxP}

\* the constructor call that made object e
New(e) ==
    IF e.cls = "TriPp" THEN ElementTriPp(e.p)
    ELSE CHOOSE c \in ClosedForm : c.cls = e.cls

-----------------------------------------------------------------------------
(* lbasis of the closed-form elements: the dict-of-lambdas tables.  Each     *)
(* table is the sequence of the lambdas' values at the point, entry i+1 for  *)
(* key i.                                                                    *)

\* what a call returns: a value, or the exception it raised
Ok(phi, dphi, dkind) == [st |-> "ok", phi |-> phi, dphi |-> dphi, dkind |-> dkind]

Raise(exc) == [st |-> exc, phi |-> <<>>, dphi |-> <<>>, dkind |-> "none"]

\* [..., ...][i]: the tables as lists, where a negative i counts from the end
LookupInList(phis, dphis, dkind, i) ==
    IF i >= Len(phis[1]) \/ i < -Len(phis[1]) THEN Raise("IndexError")
    ELSE Ok([c \in 1..Len(phis) |-> At(phis[c], i % Len(phis[1]))],
            [k \in 1..Len(dphis) |-> At(dphis[k], i % Len(phis[1]))], dkind)

\* {0: ..., 1: ...}[i]: the table's entry for key i, KeyError for any other i.
\* phis and dphis are sequences of tables (one per component, one per direction).
Lookup(phis, dphis, dkind, i) ==
    IF ~HasKey(phis[1], i) THEN Raise("KeyError")
    ELSE Ok([c \in 1..Len(phis) |-> At(phis[c], i)],
            [k \in 1..Len(dphis) |-> At(dphis[k], i)], dkind)

TriRT0lbasis(X, i) ==
    IF Len(X) < 2 THEN Raise("KeyError")
    ELSE LET x == X[1]
             y == X[2]
         IN  Lookup(<< <<RInt(x), RInt(x), RInt(-x + 1)>>,
                       <<RInt(y - 1), RInt(y), RInt(-y)>> >>,
                    << <<RInt(2), RInt(2), RInt(-2)>> >>, "array", i)

Q1lbasis(X, i) ==
    IF Len(X) < 2 THEN Raise("KeyError")
    ELSE LET x == X[1]
             y == X[2]
         IN  Lookup(<< <<R((1 - x) * (1 - y), 4), R((1 + x) * (1 - y), 4),
                         R((1 + x) * (1 + y), 4), R((1 - x) * (1 + y), 4)>> >>,
                    << <<R(-1 + y, 4), R(1 - y, 4), R(1 + y, 4), R(-1 - y, 4)>>,
                       <<R(-1 + x, 4), R(-1 - x, 4), R(1 + x, 4), R(1 - x, 4)>> >>,
                    "dict", i)

Q2lbasis(X, i) ==
    IF Len(X) < 2 THEN Raise("KeyError")
    ELSE LET x == X[1]
             y == X[2]
         IN  Lookup(<< <<R((x * x - x) * (y * y - y), 4),
                         R((x * x + x) * (y * y - y), 4),
                         R((x * x + x) * (y * y + y), 4),
                         R((x * x - x) * (y * y + y), 4),
                         R((y * y - y) * (1 - x * x), 2),
                         R((x * x + x) * (1 - y * y), 2),
                         R((y * y + y) * (1 - x * x), 2),
                         R((x * x - x) * (1 - y * y), 2),
                         RInt((1 - x * x) * (1 - y * y))>> >>,
                    << <<R((-1 + 2 * x) * (-1 + y) * y, 4),
                         R((1 + 2 * x) * (-1 + y) * y, 4),
                         R((1 + 2 * x) * y * (1 + y), 4),
                         R((-1 + 2 * x) * y * (1 + y), 4),
                         RInt(-(x * (-1 + y) * y)),
                         R(-((1 + 2 * x) * (-1 + y * y)), 2),
                         RInt(-(x * y * (1 + y))),
                         R(-((-1 + 2 * x) * (-1 + y * y)), 2),
                         RInt(2 * x * (-1 + y * y))>>,
                       <<R((-1 + x) * x * (-1 + 2 * y), 4),
                         R(x * (1 + x) * (-1 + 2 * y), 4),
                         R(x * (1 + x) * (1 + 2 * y), 4),
                         R((-1 + x) * x * (1 + 2 * y), 4),
                         R(-((-1 + x * x) * (-1 + 2 * y)), 2),
                         RInt(-(x * (1 + x) * y)),
                         R(-((-1 + x * x) * (1 + 2 * y)), 2),
                         RInt(-((-1 + x) * x * y)),
                         RInt(2 * (-1 + x * x) * y)>> >>,
                    "dict", i)

TetP0lbasis(X, i) ==
    IF Len(X) < 3 THEN Raise("KeyError")
    ELSE Lookup(<< <<ROne>> >>, << <<RZero>>, <<RZero>>, <<RZero>> >>, "dict", i)

TriP0lbasis(X, i) ==
    IF Len(X) < 2 THEN Raise("KeyError")
    ELSE Lookup(<< <<ROne>> >>, << <<RZero>>, <<RZero>> >>, "dict", i)

TriMinilbasis(X, i) ==
    IF Len(X) < 2 THEN Raise("KeyError")
    ELSE LET x == X[1]
             y == X[2]
         IN  Lookup(<< <<RInt(1 - x - y), RInt(x), RInt(y), RInt((1 - x - y) * x * y)>> >>,
                    << <<RInt(-1), RInt(1), RZero, RInt((1 - x - y) * y - x * y)>>,
                       <<RInt(-1), RZero, RInt(1), RInt((1 - x - y) * x - x * y)>> >>,
                    "dict", i)

TetP2lbasis(X, i) ==
    IF Len(X) < 3 THEN Raise("KeyError")
    ELSE LET x == X[1]
             y == X[2]
             z == X[3]
         IN  Lookup(<< <<RInt(1 - 3 * x + 2 * x * x - 3 * y + 4 * x * y + 2 * y * y
                              - 3 * z + 4 * x * z + 4 * y * z + 2 * z * z),
                         RInt(0 - x + 2 * x * x),
                         RInt(0 - y + 2 * y * y),
                         RInt(0 - z + 2 * z * z),
                         RInt(0 + 4 * x - 4 * x * x - 4 * x * y - 4 * x * z),
                         RInt(0 + 4 * x * y),
                         RInt(0 + 4 * y - 4 * x * y - 4 * y * y - 4 * y * z),
                         RInt(0 + 4 * z - 4 * x * z - 4 * y * z - 4 * z * z),
                         RInt(0 + 4 * x * z),
                         RInt(0 + 4 * y * z)>> >>,
                    << <<RInt(-3 + 4 * x + 4 * y + 4 * z), RInt(-1 + 4 * x), RZero, RZero,
                         RInt(4 - 8 * x - 4 * y - 4 * z), RInt(4 * y), RInt(-4 * y),
                         RInt(-4 * z), RInt(4 * z), RZero>>,
                       <<RInt(-3 + 4 * x + 4 * y + 4 * z), RZero, RInt(-1 + 4 * y), RZero,
                         RInt(-4 * x), RInt(4 * x), RInt(4 - 4 * x - 8 * y - 4 * z),
                         RInt(-4 * z), RZero, RInt(4 * z)>>,
                       <<RInt(-3 + 4 * x + 4 * y + 4 * z), RZero, RZero, RInt(-1 + 4 * z),
                         RInt(-4 * x), RZero, RInt(-4 * y),
                         RInt(4 - 4 * x - 4 * y - 8 * z), RInt(4 * x), RInt(4 * y)>> >>,
                    "dict", i)

\* dphi is the looked-up array itself here, not a dict of directions
LineP1lbasis(X, i) ==
    IF Len(X) < 1 THEN Raise("KeyError")
    ELSE LET x == X[1]
         IN  Lookup(<< <<RInt(1 - x), RInt(x)>> >>, << <<RInt(-1), RInt(1)>> >>, "array", i)

TriP1lbasis(X, i) ==
    IF Len(X) < 2 THEN Raise("KeyError")
    ELSE LET x == X[1]
             y == X[2]
         IN  Lookup(<< <<RInt(1 - x - y), RInt(x), RInt(y)>> >>,
                    << <<RInt(-1), RInt(1), RZero>>, <<RInt(-1), RZero, RInt(1)>> >>,
                    "dict", i)

TetP1lbasis(X, i) ==
    IF Len(X) < 3 THEN Raise("KeyError")
    ELSE LET x == X[1]
             y == X[2]
             z == X[3]
         IN  Lookup(<< <<RInt(1 - x - y - z), RInt(x), RInt(y), RInt(z)>> >>,
                    << <<RInt(-1), RInt(1), RZero, RZero>>,
                       <<RInt(-1), RZero, RInt(1), RZero>>,
                       <<RInt(-1), RZero, RZero, RInt(1)>> >>,
                    "dict", i)

-----------------------------------------------------------------------------
(* ElementTriPp: the hierarchical basis *)

\* the Legendre values P[0..m] of intlegpoly's first loop, m >= 1
RECURSIVE LegendreP(_, _)
LegendreP(x, m) ==
    IF m = 1 THEN <<ROne, x>>
    ELSE LET P == LegendreP(x, m - 1)
             i == m - 1
         IN  Append(P, RSub(RMul(RMul(R(2 * i + 1, i + 1), x), At(P, i)),
                            RMul(R(i, i + 1), At(P, i - 1))))

\* intlegpoly(x, n): the dicts iP and dP, keys 0..len-1
intlegpoly(x, n0) ==
    LET n == n0 + 1
        P == IF n > 1 THEN LegendreP(x, n) ELSE <<ROne>>
        len == IF n > 1 THEN n ELSE 1
    IN  [iP |-> [k \in 1..len |->
                    LET j == k - 1
                    IN  IF j = 0 THEN ROne
                        ELSE IF j = 1 THEN x
                        ELSE RDiv(RSub(At(P, j), At(P, j - 2)), RInt(2 * (j - 1) + 1))],
         dP |-> [k \in 1..len |->
                    LET j == k - 1
                    IN  IF j = 0 THEN RZero ELSE At(P, j - 1)]]

\* phi[0..2] and their gradients
PpPhi(X) == <<RInt(1 - X[1] - X[2]), RInt(X[1]), RInt(X[2])>>

PpGradX == <<RInt(-1), RInt(1), RZero>>

PpGradY == <<RInt(-1), RZero, RInt(1)>>

\* e=np.array([[0,1],[1,2],[0,2]]).T: column i is edge i
PpEdges == << <<0, 1>>, <<1, 2>>, <<0, 2>> >>

\* phi[e[0,i]]*phi[e[1,i]]*P[j] and its gradient, for the edge from vertex e0 to
\* vertex e1 and the entries P == P[j], dP == dP[j] of intlegpoly(eta,p-2)
PpEdgeValue(phi, e0, e1, P, dP) ==
    Ok(<<RMul(RMul(At(phi, e0), At(phi, e1)), P)>>,
       <<RAdd(RAdd(RMul(RMul(At(PpGradX, e0), At(phi, e1)), P),
                   RMul(RMul(At(PpGradX, e1), At(phi, e0)), P)),
              RMul(RMul(RMul(RSub(At(PpGradX, e1), At(PpGradX, e0)), At(phi, e0)),
                        At(phi, e1)), dP)),
         RAdd(RAdd(RMul(RMul(At(PpGradY, e0), At(phi, e1)), P),
                   RMul(RMul(At(PpGradY, e1), At(phi, e0)), P)),
              RMul(RMul(RMul(RSub(At(PpGradY, e1), At(PpGradY, e0)), At(phi, e0)),
                        At(phi, e1)), dP))>>, "dict")

\* [P,dP]=self.intlegpoly(eta,p-2) for edge i
PpEdgeLegendre(p, phi, i) ==
    intlegpoly(RSub(At(phi, At(PpEdges, i)[2]), At(phi, At(PpEdges, i)[1])), p - 2)

\* the edge function of edge i and Legendre index j, with its gradient
PpEdgeFunction(phi, i, j, leg) ==
    PpEdgeValue(phi, At(PpEdges, i)[1], At(PpEdges, i)[2], At(leg.iP, j), At(leg.dP, j))

\* the result of the edge loops: the function found, or the offset they ended with
PpFound(val) == [found |-> TRUE, offset |-> 0, val |-> val]

PpNotFound(offset) == [found |-> FALSE, offset |-> offset, val |-> Raise("none")]

RECURSIVE PpEdgeLoop(_, _, _, _, _)

\* edge i, whose dict P has lenP entries: it takes the offsets offset..offset+lenP-1,
\* in the order of j
PpEdgeStep(p, X, n, i, offset, lenP) ==
    IF n - offset < lenP
    THEN PpFound(PpEdgeFunction(PpPhi(X), i, n - offset, PpEdgeLegendre(p, PpPhi(X), i)))
    ELSE PpEdgeLoop(p, X, n, i + 1, offset + lenP)

\* the loops over the edges i and the indices j, from edge i on
PpEdgeLoop(p, X, n, i, offset) ==
    IF i = 3 THEN PpNotFound(offset)
    ELSE PpEdgeStep(p, X, n, i, offset, Len(PpEdgeLegendre(p, PpPhi(X), i).iP))

\* bubble and its gradient (dbubble_x, dbubble_y)
PpBubble(phi) ==
    <<RMul(RMul(At(phi, 0), At(phi, 1)), At(phi, 2)),
      RAdd(RAdd(RMul(RMul(At(PpGradX, 0), At(phi, 1)), At(phi, 2)),
                RMul(RMul(At(PpGradX, 1), At(phi, 2)), At(phi, 0))),
           RMul(RMul(At(PpGradX, 2), At(phi, 0)), At(phi, 1))),
      RAdd(RAdd(RMul(RMul(At(PpGradY, 0), At(phi, 1)), At(phi, 2)),
                RMul(RMul(At(PpGradY, 1), At(phi, 2)), At(phi, 0))),
           RMul(RMul(At(PpGradY, 2), At(phi, 0)), At(phi, 1)))>>

\* bubble*B[i] and its gradient, B being what the call for B[i] returned
PpInteriorFunction(bubble, B) ==
    Ok(<<RMul(bubble[1], B.phi[1])>>,
       <<RAdd(RMul(bubble[2], B.phi[1]), RMul(B.dphi[1], bubble[1])),
         RAdd(RMul(bubble[3], B.phi[1]), RMul(B.dphi[2], bubble[1]))>>, "dict")

RECURSIVE TriPplbasis(_, _, _, _)
RECURSIVE PpBLoop(_, _, _, _, _)
RECURSIVE PpInteriorLoop(_, _, _, _, _, _, _)

\* one pass of the loop below: r is what self.lbasis(X,itr) returned or raised
PpBStep(p, X, itr, N, depth, r) ==
    IF r.st # "ok" THEN r ELSE PpBLoop(p, X, itr + 1, N, depth)

\* for itr in range(pm3.nbdofs): self.lbasis(X,itr) -- the first call that raises
\* ends the loop with its exception
PpBLoop(p, X, itr, N, depth) ==
    IF itr = N THEN Ok(<<>>, <<>>, "none")
    ELSE PpBStep(p, X, itr, N, depth, TriPplbasis(p, X, itr, depth + 1))

\* for i in range(N): the function at offset n, or falling off the end
PpInteriorLoop(p, X, n, i, N, offset, depth) ==
    IF i = N THEN Raise("IndexError")
    ELSE IF offset = n
         THEN PpInteriorFunction(PpBubble(PpPhi(X)),
                  IF p > 3 THEN TriPplbasis(p, X, i, depth + 1)
                  ELSE Ok(<<ROne>>, <<RZero, RZero>>, "dict"))
    ELSE PpInteriorLoop(p, X, n, i + 1, N, offset + 1, depth)

\* the interior functions: B, the loop of calls that fills B, has ended with `B`
PpInterior(p, X, n, N, offset, depth, B) ==
    IF B.st # "ok" THEN B
    ELSE PpInteriorLoop(p, X, n, 0, N, offset, depth)

\* what follows the edge loops, which ended with `edge`
PpAfterEdges(p, X, n, depth, edge) ==
    IF edge.found THEN edge.val
    ELSE IF p > 3
         THEN PpInterior(p, X, n, ElementTriPp(p - 3).nbdofs, edge.offset, depth,
                         PpBLoop(p, X, 0, ElementTriPp(p - 3).nbdofs, depth))
    ELSE IF p > 2
         THEN PpInterior(p, X, n, 1, edge.offset, depth, Ok(<<>>, <<>>, "none"))
    ELSE Raise("IndexError")

\* ElementTriPp(p).lbasis(X, n), entered at nesting depth `depth`
TriPplbasis(p, X, n, depth) ==
    IF depth > RecursionLimit THEN Raise("RuntimeError")
    ELSE IF Len(X) # 2 THEN Raise("NotImplementedError")
    ELSE IF n <= 2
         THEN IF n < 0 THEN Raise("KeyError")
              ELSE Ok(<<At(PpPhi(X), n)>>, <<At(PpGradX, n), At(PpGradY, n)>>, "dict")
    ELSE PpAfterEdges(p, X, n, depth,
                      IF p > 1 THEN PpEdgeLoop(p, X, n, 0, 3) ELSE PpNotFound(3))

-----------------------------------------------------------------------------
(* lbasis of any object *)

\* e.lbasis(X, i) by the class of e.  A class that defines no lbasis inherits
\* Element.lbasis.
lbasisOf(e, X, i) ==
    CASE e.cls = "TriRT0" -> TriRT0lbasis(X, i)
      [] e.cls = "Q1" -> Q1lbasis(X, i)
      [] e.cls = "Q2" -> Q2lbasis(X, i)
      [] e.cls = "TriPp" -> TriPplbasis(e.p, X, i, 0)
      [] e.cls = "TetP0" -> TetP0lbasis(X, i)
      [] e.cls = "TriP0" -> TriP0lbasis(X, i)
      [] e.cls = "TriMini" -> TriMinilbasis(X, i)
      [] e.cls = "TetP2" -> TetP2lbasis(X, i)
      [] e.cls = "LineP1" -> LineP1lbasis(X, i)
      [] e.cls = "TriP1" -> TriP1lbasis(X, i)
      [] e.cls = "TetP1" -> TetP1lbasis(X, i)
      [] OTHER -> Raise("NotImplementedError")

\* self.lbasis(X, i); base is the object self.elem names.  ElementTriDG.lbasis
\* returns self.elem.lbasis(X,i).
lbasis(self, base, X, i) == lbasisOf(IF self.cls = "TriDG" THEN base ELSE self, X, i)

-----------------------------------------------------------------------------
(* The geometric mapping: an external collaborator.  A mapping object has a  *)
(* dim, and for every cell t of the mesh the Jacobian DF, its determinant    *)
(* detDF and its inverse invDF.  The mesh is fixed: cells 0 and 1 are valid, *)
(* cell 2 is degenerate (detDF = 0); invDF is asked for valid cells only.    *)

MeshDF ==
    << << <<2, 1, 0>>, <<0, 1, 0>>, <<0, 0, 1>> >>,
       << <<1, 0, 0>>, <<1, 1, 0>>, <<0, 0, 1>> >>,
       << <<1, 2, 0>>, <<2, 4, 0>>, <<0, 0, 1>> >> >>

ValidCells == {0, 1}

AllCells == {0, 1, 2}

\* mapping.DF(X,tind)[a][b] at cell t
DF(t, a, b) == RInt(At(At(At(MeshDF, t), a), b))

\* mapping.detDF(X,tind) at cell t (the triangle's 2x2 Jacobian)
detDF(t) ==
    LET m == At(MeshDF, t)
    IN  RInt(m[1][1] * m[2][2] - m[1][2] * m[2][1])

\* mapping.invDF(X,tind)[a][b] at a valid cell t: the inverse of DF, whose third
\* row and column are those of the identity
invDF(t, a, b) ==
    LET m == At(MeshDF, t)
        det == m[1][1] * m[2][2] - m[1][2] * m[2][1]
    IN  CASE a = 0 /\ b = 0 -> R(m[2][2], det)
          [] a = 0 /\ b = 1 -> R(-m[1][2], det)
          [] a = 1 /\ b = 0 -> R(-m[2][1], det)
          [] a = 1 /\ b = 1 -> R(m[1][1], det)
          [] a = 2 /\ b = 2 -> ROne
          [] OTHER -> RZero

\* the batches tind of cells drawn from `cells`
Batches(cells) ==
    {<<0>>} \cup {<<0, t>> : t \in cells \ {0}} \cup {<<t>> : t \in cells \ ValidCells}

-----------------------------------------------------------------------------
(* gbasis *)

\* what gbasis returns: (u, du, ddu), or the exception it raised; calls lists the
\* indices it passed to the scalar element's lbasis
Returned(u, du, calls) ==
    [st |-> "ok", u |-> u, du |-> du, ddu |-> "None", calls |-> calls]

Raised(exc, calls) ==
    [st |-> exc, u |-> <<>>, du |-> <<>>, ddu |-> "none", calls |-> calls]

\* x[0]=X[0,:], ... : the rows of the array X that gbasis copies into the dict x
Rows(X, k) == SubSeq(X, 1, k)

\* np.tile(v,(len(tind),1)): one copy of v per cell of the batch
Tile(v, tind) == [t \in 1..Len(tind) |-> v]

\* 0*phi
ZeroLike(v) == [k \in 1..Len(v) |-> [c \in 1..Len(v[k]) |-> RZero]]

\* invDF[0][k]*dphi[0]+invDF[1][k]*dphi[1] (+invDF[2][k]*dphi[2]), one value per cell
Contract(dphi, d, k, tind) ==
    [t \in 1..Len(tind) |->
        LET s2 == RAdd(RMul(invDF(tind[t], 0, k), At(dphi, 0)),
                       RMul(invDF(tind[t], 1, k), At(dphi, 1)))
        IN  IF d = 2 THEN s2 ELSE RAdd(s2, RMul(invDF(tind[t], 2, k), At(dphi, 2)))]

\* indexing dphi past its end: a dict raises KeyError, an array IndexError
MissingEntry(dkind) == IF dkind = "dict" THEN "KeyError" ELSE "IndexError"

\* the rows gbasis copies from the array X for a mapping of dimension mdim; least is
\* the number it copies whatever mdim is
Need(mdim, least) == IF mdim >= 3 THEN 3 ELSE IF mdim >= 2 THEN 2 ELSE least

\* ElementH1.gbasis from the call of self.lbasis on, which returned or raised r
ElementH1transform(dim, mdim, form, i, tind, r) ==
    IF r.st # "ok" THEN [dim |-> dim, res |-> Raised(r.st, <<i>>)]
    \* invDF=mapping.invDF(X,tind); self.dim=mapping.dim
    ELSE IF mdim = 1
         THEN IF r.dkind = "dict" THEN [dim |-> mdim, res |-> Raised("TypeError", <<i>>)]
              ELSE [dim |-> mdim,
                    res |-> Returned(IF form = "dict" THEN <<r.phi>> ELSE Tile(r.phi, tind),
                                     <<[t \in 1..Len(tind) |->
                                          RMul(invDF(tind[t], 0, 0), At(r.dphi, 0))]>>,
                                     <<i>>)]
    ELSE IF mdim \in {2, 3}
         THEN IF Len(r.dphi) < mdim
              THEN [dim |-> mdim, res |-> Raised(MissingEntry(r.dkind), <<i>>)]
              ELSE [dim |-> mdim,
                    res |-> Returned(IF form = "dict" THEN <<r.phi>> ELSE Tile(r.phi, tind),
                                     [k \in 1..mdim |-> Contract(r.dphi, mdim, k - 1, tind)],
                                     <<i>>)]
    ELSE [dim |-> mdim, res |-> Raised("NotImplementedError", <<i>>)]

\* ElementH1.gbasis(self, mapping, X, i, tind): self.dim afterwards and the result
ElementH1gbasis(self, base, mdim, form, X, i, tind) ==
    IF form = "array" /\ Len(X) < Need(mdim, 1)
    THEN [dim |-> self.dim, res |-> Raised("IndexError", <<>>)]
    ELSE ElementH1transform(self.dim, mdim, form, i, tind,
             lbasis(self, base, IF form = "dict" THEN X ELSE Rows(X, Need(mdim, 1)), i))

\* ind=np.floor(float(i)/float(self.dim)), for self.dim # 0
VecInd(i, dim) == i \div dim

\* n=i-ind: the slot computed without the factor self.dim
VecNWithoutDim(i, dim) == i - VecInd(i, dim)

\* n=i-self.dim*ind
VecN(i, dim) == i - dim * VecInd(i, dim)

\* u and du with slot n filled from phi and dphi and every other slot zero
VecFill(dim, mdim, n, tind, phi, dphi) ==
    Returned([itr \in 1..dim |-> IF itr - 1 = n THEN phi ELSE ZeroLike(phi)],
             [itr \in 1..dim |->
                 IF itr - 1 = n
                 THEN [k \in 1..mdim |-> Contract(dphi, mdim, k - 1, tind)]
                 ELSE [jtr \in 1..dim |-> ZeroLike(phi)]],
             <<>>)

\* ElementH1Vec.gbasis from the call of self.elem.lbasis(x,ind) on, which returned
\* or raised r
ElementH1Vectransform(dim, mdim, form, ind, n, tind, r) ==
    IF r.st # "ok" THEN Raised(r.st, <<ind>>)
    \* dphi[itr]=np.tile(dphi[itr],...) for itr in range(self.dim)
    ELSE IF form = "array" /\ Len(r.dphi) < dim THEN Raised(MissingEntry(r.dkind), <<ind>>)
    ELSE IF form = "array" /\ r.dkind = "array" /\ Len(tind) > 1
         THEN Raised("ValueError", <<ind>>)
    \* the slot itr == n
    ELSE IF mdim \notin {2, 3} THEN Raised("NotImplementedError", <<ind>>)
    ELSE IF Len(r.dphi) < mdim THEN Raised(MissingEntry(r.dkind), <<ind>>)
    ELSE [VecFill(dim, mdim, n, tind,
                  IF form = "dict" THEN <<r.phi>> ELSE Tile(r.phi, tind), r.dphi)
          EXCEPT !.calls = <<ind>>]

\* ElementH1Vec.gbasis(self, mapping, X, i, tind); base is self.elem
ElementH1Vecgbasis(self, base, mdim, form, X, i, tind) ==
    IF self.dim = 0 THEN Raised("ZeroDivisionError", <<>>)
    ELSE IF form = "array" /\ Len(X) < Need(mdim, 2) THEN Raised("IndexError", <<>>)
    ELSE ElementH1Vectransform(self.dim, mdim, form, VecInd(i, self.dim),
             VecN(i, self.dim), tind,
             lbasis(base, base, IF form = "dict" THEN X ELSE Rows(X, Need(mdim, 2)),
                    VecInd(i, self.dim)))

\* (DF[a][0]*phi[0]+DF[a][1]*phi[1])/detDF at cell t
Piola(phi, a, t) ==
    RDiv(RAdd(RMul(DF(t, a, 0), At(phi, 0)), RMul(DF(t, a, 1), At(phi, 1))), detDF(t))

\* ElementHdiv.gbasis from the call of self.lbasis(x,i) on, which returned or raised r
ElementHdivtransform(i, tind, r) ==
    IF r.st # "ok" THEN Raised(r.st, <<i>>)
    ELSE Returned([a \in 1..2 |-> [t \in 1..Len(tind) |-> Piola(r.phi, a - 1, tind[t])]],
                  [t \in 1..Len(tind) |-> RDiv(At(r.dphi, 0), detDF(tind[t]))],
                  <<i>>)

\* ElementHdiv.gbasis(self, mapping, X, i, tind): the Piola transform
ElementHdivgbasis(self, base, form, X, i, tind) ==
    IF form = "dict" THEN Raised("NotImplementedError", <<>>)
    ELSE IF Len(X) < 2 THEN Raised("IndexError", <<>>)
    ELSE ElementHdivtransform(i, tind, lbasis(self, base, Rows(X, 2), i))

-----------------------------------------------------------------------------
(* The reference cells *)

RefCell(e) ==
    CASE e.cls = "LineP1" -> "line"
      [] e.cls \in {"Q1", "Q2"} -> "quad"
      [] e.cls \in {"TetP0", "TetP1", "TetP2"} -> "tet"
      [] OTHER -> "tri"

NumVertices(cell) ==
    CASE cell = "line" -> 2 [] cell = "tri" -> 3 [] cell = "quad" -> 4 [] cell = "tet" -> 4

NumEdges(cell) ==
    CASE cell = "line" -> 1 [] cell = "tri" -> 3 [] cell = "quad" -> 4 [] cell = "tet" -> 6

NumFacets(cell) ==
    CASE cell = "line" -> 2 [] cell = "tri" -> 3 [] cell = "quad" -> 4 [] cell = "tet" -> 4

\* the spatial dimension of the cell
CellDim(cell) ==
    CASE cell = "line" -> 1 [] cell = "tri" -> 2 [] cell = "quad" -> 2 [] cell = "tet" -> 3

\* the local dofs object e declares on the cell of base: n_dofs per vertex, e_dofs per
\* edge, f_dofs per facet, i_dofs in the interior
LocalDofs(e, base) ==
    LET cell == RefCell(base)
    IN  e.n_dofs * NumVertices(cell) + e.e_dofs * NumEdges(cell)
        + e.f_dofs * NumFacets(cell) + e.i_dofs

-----------------------------------------------------------------------------
(* The calls a program makes *)

\* the reference points: 1 to 3 coordinates (rows of the array, keys of the dict)
Points == {[j \in 1..k |-> c] : k \in 1..3, c \in 1..MaxCoord}

\* the indices passed to lbasis: from one below to one above the declared range
LbasisIndices(e, base) == -1..(LocalDofs(e, base) + 1)

\* the indices passed to gbasis: the declared range (index 0 when it is empty)
GbasisIndices(e, base) == 0..Max(LocalDofs(e, base) - 1, 0)

MapDims == 0..MaxMapDim

Forms == {"dict", "array"}

Call(kind, mdim, form, X, i, tind) ==
    [kind |-> kind, dim |-> mdim, form |-> form, X |-> X, i |-> i, tind |-> tind]

NoCall == Call("none", 0, "none", <<>>, 0, <<>>)

NoResult == Raised("none", <<>>)

\* a program constructs an element; nothing has been called
Init ==
    /\ elem \in Constructed
    /\ wrap = NoObj
    /\ op = NoCall
    /\ res = NoResult

\* elem.lbasis(X, i)
CallLbasis ==
    /\ op = NoCall
    /\ \E X \in Points, i \in LbasisIndices(elem, elem) :
        /\ op' = Call("lbasis", 0, "dict", X, i, <<>>)
        /\ res' = lbasis(elem, elem, X, i)
        /\ UNCHANGED <<elem, wrap>>

\* wrap = ElementTriDG(elem)
BuildTriDG ==
    /\ op = NoCall
    /\ wrap' = ElementTriDG(elem)
    /\ UNCHANGED <<elem, op, res>>

\* wrap.lbasis(X, i) for the ElementTriDG wrapper
CallLbasisDG ==
    /\ op = NoCall
    /\ wrap.cls = "TriDG"
    /\ \E X \in Points, i \in LbasisIndices(elem, elem) :
        /\ op' = Call("lbasisDG", 0, "dict", X, i, <<>>)
        /\ res' = lbasis(wrap, elem, X, i)
        /\ UNCHANGED <<elem, wrap>>

\* wrap = ElementH1Vec(elem)
BuildH1Vec ==
    /\ op = NoCall
    /\ wrap' = ElementH1Vec(elem)
    /\ UNCHANGED <<elem, op, res>>

\* elem.gbasis(mapping, X, i, tind) for a subclass of ElementH1; a program makes
\* its calls on the bare element before it wraps it
CallGbasisH1 ==
    /\ op = NoCall
    /\ wrap = NoObj
    /\ elem.cls # "TriRT0"
    /\ \E mdim \in MapDims, form \in Forms, X \in Points,
          i \in GbasisIndices(elem, elem), tind \in Batches(ValidCells) :
        \E g \in {ElementH1gbasis(elem, elem, mdim, form, X, i, tind)} :
            /\ op' = Call("gbasisH1", mdim, form, X, i, tind)
            /\ elem' = [elem EXCEPT !.dim = g.dim]
            /\ res' = g.res
            /\ UNCHANGED wrap

\* elem.gbasis(mapping, X, i, tind) for a subclass of ElementHdiv
CallGbasisHdiv ==
    /\ op = NoCall
    /\ elem.cls = "TriRT0"
    /\ \E mdim \in MapDims, form \in Forms, X \in Points,
          i \in GbasisIndices(elem, elem), tind \in Batches(AllCells) :
        /\ op' = Call("gbasisHdiv", mdim, form, X, i, tind)
        /\ res' = ElementHdivgbasis(elem, elem, form, X, i, tind)
        /\ UNCHANGED <<elem, wrap>>

\* wrap.gbasis(mapping, X, i, tind) for the ElementH1Vec wrapper
CallGbasisH1Vec ==
    /\ op = NoCall
    /\ wrap.cls = "H1Vec"
    /\ \E mdim \in MapDims, form \in Forms, X \in Points,
          i \in GbasisIndices(wrap, elem), tind \in Batches(ValidCells) :
        /\ op' = Call("gbasisH1Vec", mdim, form, X, i, tind)
        /\ res' = ElementH1Vecgbasis(wrap, elem, mdim, form, X, i, tind)
        /\ UNCHANGED <<elem, wrap>>

\* the caller takes what the call returned or raised; the objects stay as they are
Return ==
    /\ op # NoCall
    /\ op' = NoCall
    /\ res' = NoResult
    /\ UNCHANGED <<elem, wrap>>

\* the reference elements alone: lbasis and the discontinuous wrapper
NextRef == CallLbasis \/ BuildTriDG \/ CallLbasisDG \/ Return

SpecRef == Init /\ [][NextRef]_vars

\* the global basis transforms and the wrappers
Next ==
    \/ BuildH1Vec
    \/ CallGbasisH1
    \/ CallGbasisHdiv
    \/ CallGbasisH1Vec
    \/ Return

Spec == Init /\ [][Next]_vars

\* the grid of integer points of a cell of dimension d
Grid(d) == [1..d -> (-1)..MaxGrid]

\* the results of elem.lbasis(X, i) for i = 0..N-1 gathered as gbasis results are:
\* u[i] is the value of function i, du[k][i] entry k of its dphi; the
\* first call that raises ends the loop with its exception
AllLocal(e, X, N) ==
    LET r == [i \in 1..N |-> lbasisOf(e, X, i - 1)]
        bad == {i \in 1..N : r[i].st # "ok"}
        first == CHOOSE i \in bad : \A j \in bad : i <= j
    IN  IF bad # {} THEN Raised(r[first].st, [i \in 1..first |-> i - 1])
        ELSE Returned([i \in 1..N |-> r[i].phi[1]],
                      [k \in 1..Len(r[1].dphi) |-> [i \in 1..N |-> r[i].dphi[k]]],
                      [i \in 1..N |-> i - 1])

\* for i in range(N): elem.lbasis(X, i), at a point X of the cell of elem, N being
\* the number of local dofs elem declares
CallLbasisAll ==
    /\ op = NoCall
    /\ \E X \in Grid(CellDim(RefCell(elem))) :
        /\ op' = Call("lbasisAll", 0, "dict", X, LocalDofs(elem, elem), <<>>)
        /\ res' = AllLocal(elem, X, LocalDofs(elem, elem))
        /\ UNCHANGED <<elem, wrap>>

NextAll == CallLbasisAll \/ Return

\* every basis function of an element evaluated at the points of the grid
SpecAll == Init /\ [][NextAll]_vars

\* a program constructs a hierarchical element of any order up to MaxOrder
InitOrders ==
    /\ elem \in {ElementTriPp(p) : p \in 0..MaxOrder}
    /\ wrap = NoObj
    /\ op = NoCall
    /\ res = NoResult

NextOrders == CallLbasis \/ Return

\* lbasis of the hierarchical elements of every order
SpecOrders == InitOrders /\ [][NextOrders]_vars

-----------------------------------------------------------------------------
(* The assembler (fem.asm) and the triangle meshes (fem.geometry): external   *)
(* to element.py.  A mesh has nv vertices 0..nv-1, cells t (three vertices     *)
(* each), facets (the edges, two vertices each) and t2f (the three facets of   *)
(* each cell).  The assembler numbers the global dofs in contiguous blocks:    *)
(* one block per vertex (n_dofs), then one per facet (f_dofs), then one per    *)
(* cell (i_dofs).  An assembly call creates an empty system, adds one triplet  *)
(* per cell and local pair (bilinear form) or local index (linear form), and   *)
(* finalizes it with the dimension of the total number of global dofs.         *)

\* one triangle; the unit square cut in two; the unit square cut in four around
\* its centre, vertex 4
Meshes ==
    {[nv |-> 3, t |-> << <<0, 1, 2>> >>,
      facets |-> << <<0, 1>>, <<1, 2>>, <<0, 2>> >>,
      t2f |-> << <<0, 1, 2>> >>],
     [nv |-> 4, t |-> << <<0, 1, 2>>, <<1, 2, 3>> >>,
      facets |-> << <<0, 1>>, <<1, 2>>, <<0, 2>>, <<2, 3>>, <<1, 3>> >>,
      t2f |-> << <<0, 1, 2>>, <<1, 3, 4>> >>],
     [nv |-> 5, t |-> << <<0, 1, 4>>, <<1, 3, 4>>, <<2, 3, 4>>, <<0, 2, 4>> >>,
      facets |-> << <<0, 1>>, <<1, 4>>, <<0, 4>>, <<1, 3>>, <<3, 4>>, <<2, 3>>,
                    <<2, 4>>, <<0, 2>> >>,
      t2f |-> << <<0, 1, 2>>, <<3, 4, 1>>, <<5, 4, 6>>, <<7, 6, 2>> >>]}

\* the system before the first assembly call
NoSystem == [shape |-> <<>>, triplets |-> <<>>]

\* the assembler object for mesh m and element e
Assembler(m, e) ==
    [cls |-> "Assembler", mesh |-> m,
     n_dofs |-> e.n_dofs, f_dofs |-> e.f_dofs, i_dofs |-> e.i_dofs,
     system |-> NoSystem]

\* the total number of global dofs
TotalDofs(a) ==
    a.n_dofs * a.mesh.nv + a.f_dofs * Len(a.mesh.facets) + a.i_dofs * Len(a.mesh.t)

\* the number of local dofs of a cell
CellDofs(a) == 3 * a.n_dofs + 3 * a.f_dofs + a.i_dofs

\* the global index of local dof l of cell c: vertex blocks first, then facet
\* blocks, then cell blocks
GlobalDof(a, c, l) ==
    IF l < 3 * a.n_dofs
    THEN a.n_dofs * At(At(a.mesh.t, c), l \div a.n_dofs) + (l % a.n_dofs)
    ELSE IF l < 3 * a.n_dofs + 3 * a.f_dofs
         THEN a.n_dofs * a.mesh.nv
              + a.f_dofs * At(At(a.mesh.t2f, c), (l - 3 * a.n_dofs) \div a.f_dofs)
              + ((l - 3 * a.n_dofs) % a.f_dofs)
    ELSE a.n_dofs * a.mesh.nv + a.f_dofs * Len(a.mesh.facets)
         + a.i_dofs * c + (l - 3 * a.n_dofs - 3 * a.f_dofs)

\* an assembly call that goes on with the system the last call left
KeepSystem(previous) == previous

\* the system an assembly call starts from, whatever the last call left
StartSystem(previous) == NoSystem

RECURSIVE CellLoop(_, _, _, _)
\* the pass over the cells from cell c on, adding to the triplets so far
CellLoop(a, form, c, triplets) ==
    IF c = Len(a.mesh.t) THEN triplets
    ELSE CellLoop(a, form, c + 1,
             triplets \o
             (IF form = "bilinear"
              THEN [k \in 1..(CellDofs(a) * CellDofs(a)) |->
                       <<GlobalDof(a, c, (k - 1) \div CellDofs(a)),
                         GlobalDof(a, c, (k - 1) % CellDofs(a))>>]
              ELSE [k \in 1..CellDofs(a) |-> <<GlobalDof(a, c, k - 1)>>]))

\* iasm(form): the finalized system
iasm(a, form) ==
    [shape |-> IF form = "bilinear" THEN <<TotalDofs(a), TotalDofs(a)>>
               ELSE <<TotalDofs(a)>>,
     triplets |-> CellLoop(a, form, 0, StartSystem(a.system).triplets)]

\* wrap = the assembler of a mesh for elem, an element on the triangle
BuildAssembler ==
    /\ op = NoCall
    /\ wrap = NoObj
    /\ RefCell(elem) = "tri"
    /\ \E m \in Meshes : wrap' = Assembler(m, elem)
    /\ UNCHANGED <<elem, op, res>>

\* wrap.iasm(form) for a bilinear or a linear form
CallIasm ==
    /\ op = NoCall
    /\ wrap.cls = "Assembler"
    /\ \E form \in {"bilinear", "linear"} :
        \E sys \in {iasm(wrap, form)} :
            /\ op' = Call("iasm", 0, form, <<>>, 0, <<>>)
            /\ wrap' = [wrap EXCEPT !.system = sys]
            /\ res' = sys
            /\ UNCHANGED elem

NextAsm == BuildAssembler \/ CallIasm \/ Return

\* assembly calls on the assembler of a mesh
SpecAsm == Init /\ [][NextAsm]_vars

-----------------------------------------------------------------------------
(* Claims *)

\* C1: for every order p of ElementTriPp(p), the indices n >= 0 for which
\* lbasis(X, n) returns, for a point X of the triangle, are exactly
\* 0..nbdofs-1, nbdofs being what the constructor computed.
C1_TriPpResolvesExactlyNbdofs ==
    (elem.cls = "TriPp" /\ op.kind = "lbasis" /\ Len(op.X) = 2 /\ op.i >= 0)
        => (res.st = "ok" <=> op.i < elem.nbdofs)

\* C1: ElementTriPp(0) counts 4 dofs, and its lbasis(X, 3) falls off the end.
C1_OrderZeroIndexThreeRaises ==
    /\ elem = ElementTriPp(0)
    /\ elem.nbdofs = 4
    /\ op.kind = "lbasis" /\ Len(op.X) = 2 /\ op.i = 3
    /\ res.st = "IndexError"

\* every entry of the batch of values v is exactly zero
AllZero(v) == \A t \in 1..Len(v) : \A c \in 1..Len(v[t]) : v[t][c] = RZero

\* the dict x the wrapper hands to the scalar lbasis for the call op
ScalarX == IF op.form = "dict" THEN op.X ELSE Rows(op.X, Need(op.dim, 2))

\* C2: for an ElementH1Vec built on a scalar element of dimension d with k local
\* dofs and every i in [0, k*d), gbasis calls the scalar lbasis only at i div d;
\* when it returns, slot i mod d holds that value and its transformed gradient
\* and every other slot holds exact zeros for the value and all d derivatives;
\* and i -> (i mod d, i div d) is a bijection from [0, k*d) onto [0, d) x [0, k).
C2_H1VecSlotPlacement ==
    (wrap.cls = "H1Vec" /\ wrap.dim > 0) =>
        LET d == wrap.dim
            k == LocalDofs(elem, elem)
        IN  /\ op = NoCall =>
                   /\ {<<VecN(i, d), VecInd(i, d)>> : i \in 0..(k * d - 1)}
                          = (0..(d - 1)) \X (0..(k - 1))
                   /\ \A i, j \in 0..(k * d - 1) :
                          (VecN(i, d) = VecN(j, d) /\ VecInd(i, d) = VecInd(j, d)) => i = j
            /\ (op.kind = "gbasisH1Vec" /\ op.i < k * d) =>
                   /\ \A c \in 1..Len(res.calls) : res.calls[c] = op.i \div d
                   /\ res.st = "ok" =>
                        LET r == lbasisOf(elem, ScalarX, op.i \div d)
                            phi == IF op.form = "dict" THEN <<r.phi>>
                                   ELSE Tile(r.phi, op.tind)
                        IN  /\ res.calls = <<op.i \div d>>
                            /\ r.st = "ok"
                            /\ Len(res.u) = d /\ Len(res.du) = d
                            /\ \A slot \in 0..(d - 1) :
                                 IF slot = op.i % d
                                 THEN /\ At(res.u, slot) = phi
                                      /\ At(res.du, slot) =
                                           [kk \in 1..op.dim |->
                                              Contract(r.dphi, op.dim, kk - 1, op.tind)]
                                 ELSE /\ AllZero(At(res.u, slot))
                                      /\ Len(At(res.du, slot)) = d
                                      /\ \A jtr \in 1..d : AllZero(At(res.du, slot)[jtr])

\* C2: a call for the second component (i = 3, d = 2) over a batch of two cells
\* returned, with a value that is not zero in the filled slot
C2_SecondComponentFilled ==
    /\ wrap.cls = "H1Vec" /\ wrap.dim = 2
    /\ op.kind = "gbasisH1Vec" /\ op.i = 3 /\ Len(op.tind) = 2
    /\ res.st = "ok"
    /\ res.calls = <<1>>
    /\ ~AllZero(At(res.u, 1))
    /\ AllZero(At(res.u, 0))

\* the metadata attributes of an object
Metadata(e) == <<e.dim, e.maxdeg, e.n_dofs, e.e_dofs, e.f_dofs, e.i_dofs>>

\* C3: for every scalar element class wrapped by ElementH1Vec right after its
\* construction, each dof count of the wrapper (n_dofs, e_dofs, f_dofs, i_dofs)
\* is the wrapped element's count times the spatial dimension of its cell (2 for
\* triangles and quadrilaterals, 3 for tetrahedra).
C3_H1VecCountsTimesCellDim ==
    (wrap.cls = "H1Vec" /\ elem = New(elem) /\ elem.cls # "TriRT0") =>
        LET d == CellDim(RefCell(elem))
        IN  /\ wrap.n_dofs = elem.n_dofs * d
            /\ wrap.e_dofs = elem.e_dofs * d
            /\ wrap.f_dofs = elem.f_dofs * d
            /\ wrap.i_dofs = elem.i_dofs * d
            /\ LocalDofs(wrap, elem) = LocalDofs(elem, elem) * d

\* C3: the wrapper of a fresh ElementQ1 (4 local dofs on the quadrilateral) has no
\* dofs at all
C3_WrappedQ1HasNoDofs ==
    /\ elem = ElementQ1
    /\ LocalDofs(elem, elem) = 4
    /\ wrap.cls = "H1Vec"
    /\ wrap.dim = 0
    /\ LocalDofs(wrap, elem) = 0

\* C4: after any sequence of gbasis calls every metadata attribute of the element
\* (dim, maxdeg, n_dofs, e_dofs, f_dofs, i_dofs) has the value construction gave
\* it, and a wrapper built afterwards is the one built on the fresh element.
C4_GbasisWritesNoMetadata ==
    /\ Metadata(elem) = Metadata(New(elem))
    /\ wrap.cls = "H1Vec" => wrap = ElementH1Vec(New(elem))

\* C4: a gbasis call on ElementQ1 with a two-dimensional mapping left dim = 2 in
\* the object, and the wrapper built next has 8 dofs where the wrapper of a fresh
\* ElementQ1 has none
C4_GbasisChangedTheWrapper ==
    /\ elem.cls = "Q1"
    /\ New(elem).dim = 0
    /\ elem.dim = 2
    /\ wrap.cls = "H1Vec"
    /\ LocalDofs(wrap, elem) = 8
    /\ LocalDofs(ElementH1Vec(New(elem)), elem) = 0

\* C5: for every closed-form element and every point X of its reference cell,
\* lbasis(X, i) returns a result if and only if 0 <= i < N, with
\* N = n_dofs*#vertices + e_dofs*#edges + f_dofs*#facets + i_dofs on that cell;
\* for every other integer i it raises and returns nothing.
C5_ClosedFormReturnsIffInRange ==
    (elem \in ClosedForm /\ op.kind = "lbasis"
        /\ Len(op.X) >= CellDim(RefCell(elem))) =>
        LET cell == RefCell(elem)
            N == elem.n_dofs * NumVertices(cell) + elem.e_dofs * NumEdges(cell)
                 + elem.f_dofs * NumFacets(cell) + elem.i_dofs
        IN  IF 0 <= op.i /\ op.i < N
            THEN res.st = "ok" /\ res.phi # <<>> /\ res.dphi # <<>>
            ELSE res.st \notin {"ok", "none"} /\ res.phi = <<>> /\ res.dphi = <<>>

\* C5: ElementTetP2 (10 local dofs) returned for its last index, 9
C5_TetP2LastIndexReturns ==
    /\ elem = ElementTetP2
    /\ op.kind = "lbasis" /\ Len(op.X) = 3 /\ op.i = 9
    /\ res.st = "ok"

\* differences are taken up to this order: no basis function of the elements
\* within the bounds has a higher degree
MaxDeg == 8

RECURSIVE Binomial(_, _)
Binomial(n, k) == IF k = 0 \/ k = n THEN 1 ELSE Binomial(n - 1, k - 1) + Binomial(n - 1, k)

\* the point at parameter t of the line through the origin with direction (1,2,3)
LinePoint(d, t) == [j \in 1..d |-> j * t]

\* component c of basis function i of e at parameter t of that line
ValueOnLine(e, i, c, t) == lbasisOf(e, LinePoint(CellDim(RefCell(e)), t), i).phi[c]

\* the k-th forward difference at 0 of basis function i of e along the line:
\* sum over j of (-1)^(k-j) * Binomial(k,j) * value at j, from term j on
RECURSIVE DifferenceFrom(_, _, _, _, _)
DifferenceFrom(e, i, c, k, j) ==
    IF j > k THEN RZero
    ELSE RAdd(RMul(RInt((IF (k - j) % 2 = 0 THEN 1 ELSE -1) * Binomial(k, j)),
                   ValueOnLine(e, i, c, j)),
              DifferenceFrom(e, i, c, k, j + 1))

\* a polynomial of total degree at most m has a zero k-th difference along every
\* line for every k > m
DegreeAtMost(e, i, m) ==
    \A k \in (m + 1)..MaxDeg :
        \A c \in 1..Len(lbasisOf(e, LinePoint(CellDim(RefCell(e)), 0), i).phi) :
            DifferenceFrom(e, i, c, k, 0) = RZero

\* C6: for every element (closed-form, ElementTriPp(p), ElementTriDG wrapper) the
\* declared maxdeg is at least the total polynomial degree of every basis
\* function lbasis produces for an index in range.
C6_MaxdegBoundsEveryDegree ==
    /\ (op.kind = "lbasis" /\ res.st = "ok" /\ op.i < LocalDofs(elem, elem))
           => DegreeAtMost(elem, op.i, elem.maxdeg)
    /\ (op.kind = "lbasisDG" /\ res.st = "ok" /\ op.i < LocalDofs(wrap, elem))
           => DegreeAtMost(elem, op.i, wrap.maxdeg)

\* C6: ElementTriMini declares maxdeg 0 (its class body sets max_deg), and its
\* bubble, basis function 3, has a third difference that is not zero
C6_MiniBubbleExceedsMaxdeg ==
    /\ elem = ElementTriMini
    /\ elem.maxdeg = 0 /\ elem.max_deg = 3
    /\ op.kind = "lbasis" /\ op.i = 3 /\ res.st = "ok"
    /\ DifferenceFrom(elem, 3, 1, 3, 0) # RZero

\* C7 as stated: for any base element the ElementTriDG wrapper has
\* n_dofs = e_dofs = f_dofs = 0 and i_dofs equal to the base element's total
\* number of local dofs on its cell, and its lbasis(X, i) returns the base's
\* lbasis(X, i) for exactly the indices 0 <= i < i_dofs.
C7_TriDGAnyBase ==
    wrap.cls = "TriDG" =>
        /\ wrap.n_dofs = 0 /\ wrap.e_dofs = 0 /\ wrap.f_dofs = 0
        /\ wrap.i_dofs = LocalDofs(elem, elem)
        /\ (op.kind = "lbasisDG" /\ Len(op.X) = CellDim(RefCell(elem))) =>
               /\ res.st = "ok" <=> (0 <= op.i /\ op.i < wrap.i_dofs)
               /\ res.st = "ok" => res = lbasisOf(elem, op.X, op.i)

\* C7, amended: the ElementTriDG wrapper has n_dofs = e_dofs = f_dofs = 0 and
\* i_dofs = 3*n_dofs + 3*f_dofs + i_dofs of the base, which is the base's total
\* number of local dofs when the base is an element on the triangle; and its
\* lbasis(X, i) is the base's lbasis(X, i) for every i: it returns the same
\* result for exactly the indices for which the base returns, and raises what
\* the base raises for the others.
C7_TriDGTriangleCount ==
    wrap.cls = "TriDG" =>
        /\ wrap.n_dofs = 0 /\ wrap.e_dofs = 0 /\ wrap.f_dofs = 0
        /\ wrap.i_dofs = 3 * elem.n_dofs + 3 * elem.f_dofs + elem.i_dofs
        /\ RefCell(elem) = "tri" => wrap.i_dofs = LocalDofs(elem, elem)
        /\ op.kind = "lbasisDG" => res = lbasisOf(elem, op.X, op.i)

\* C7: the wrapper of ElementTriMini (4 local dofs) returned the bubble, the base's
\* function 3, for its last index
C7_WrappedMiniReturnsBubble ==
    /\ elem = ElementTriMini
    /\ wrap.cls = "TriDG" /\ wrap.i_dofs = 4
    /\ op.kind = "lbasisDG" /\ Len(op.X) = 2 /\ op.i = 3
    /\ res.st = "ok"

\* C8: for every order p >= 3 the interior basis functions of ElementTriPp(p),
\* indices 3 + 3*(p-1) and above, are in order bubble * (function j of
\* ElementTriPp(p-3)) for j = 0..nbdofs(p-3)-1, the constant 1 when p = 3.
C8_InteriorIsBubbleTimesSubBasis ==
    (elem.cls = "TriPp" /\ elem.p >= 3 /\ op.kind = "lbasis" /\ Len(op.X) = 2) =>
        LET j == op.i - (3 + 3 * (elem.p - 1))
            sub == IF elem.p = 3 THEN Ok(<<ROne>>, <<RZero, RZero>>, "dict")
                   ELSE TriPplbasis(elem.p - 3, op.X, j, 0)
        IN  (j >= 0 /\ j < (IF elem.p = 3 THEN 1 ELSE ElementTriPp(elem.p - 3).nbdofs)) =>
                /\ sub.st = "ok"
                /\ res = PpInteriorFunction(PpBubble(PpPhi(op.X)), sub)

\* C8: interior function j = 4 of ElementTriPp(5), index 19, is the bubble times
\* function 4 of ElementTriPp(5) itself and not times function 4 of ElementTriPp(2)
C8_OrderFiveUsesOwnBasis ==
    /\ elem = ElementTriPp(5)
    /\ op.kind = "lbasis" /\ Len(op.X) = 2 /\ op.i = 19
    /\ res = PpInteriorFunction(PpBubble(PpPhi(op.X)), TriPplbasis(5, op.X, 4, 0))
    /\ res # PpInteriorFunction(PpBubble(PpPhi(op.X)), TriPplbasis(2, op.X, 4, 0))

\* the call op is a gbasis call for an index in range at a point of the cell of
\* the element
InRangeGbasis ==
    /\ Len(op.X) = CellDim(RefCell(elem))
    /\ \/ op.kind = "gbasisH1" /\ op.i < LocalDofs(elem, elem)
       \/ op.kind = "gbasisH1Vec" /\ op.i < LocalDofs(wrap, elem)
       \/ op.kind = "gbasisHdiv" /\ op.i < LocalDofs(elem, elem)

\* C9: when mapping.dim is not supported (outside {1,2,3} for ElementH1.gbasis,
\* outside {2,3} for ElementH1Vec.gbasis), gbasis raises NotImplementedError, for
\* every element, every index in range and both input forms; it raises nothing
\* else and returns no value.
C9_UnsupportedDimNotImplemented ==
    (InRangeGbasis
        /\ \/ op.kind = "gbasisH1" /\ op.dim \notin {1, 2, 3}
           \/ op.kind = "gbasisH1Vec" /\ op.dim \notin {2, 3})
    => res.st = "NotImplementedError"

\* C9: ElementTriP1.gbasis with a mapping of dimension 0 and an array X of two rows
\* raised KeyError
C9_TriP1DimZeroKeyError ==
    /\ elem.cls = "TriP1"
    /\ op.kind = "gbasisH1" /\ op.dim = 0 /\ op.form = "array" /\ Len(op.X) = 2
    /\ op.i = 0
    /\ res.st = "KeyError"

\* some cell of the batch is degenerate
HasDegenerateCell(tind) == \E t \in 1..Len(tind) : detDF(tind[t]) = RZero

\* C10: when gbasis of an ElementHdiv element is called for a batch that contains a
\* cell whose detDF is 0, the call fails with an error and returns no (u, du, ddu).
C10_DegenerateCellFails ==
    (op.kind = "gbasisHdiv" /\ HasDegenerateCell(op.tind))
    => (res.st # "ok" /\ res.u = <<>> /\ res.du = <<>>)

\* C10: ElementTriRT0.gbasis returned for a batch with the degenerate cell, with
\* values that are inf or nan
C10_ReturnedNonFinite ==
    /\ elem = ElementTriRT0
    /\ op.kind = "gbasisHdiv" /\ op.form = "array" /\ HasDegenerateCell(op.tind)
    /\ res.st = "ok"
    /\ \E a \in 1..2 : \E t \in 1..Len(op.tind) : ~IsFinite(res.u[a][t])
    /\ \E t \in 1..Len(op.tind) : ~IsFinite(res.du[t])

\* the nodal Lagrange elements of order >= 1
Lagrange ==
    {ElementLineP1, ElementTriP1, ElementTetP1, ElementTetP2, ElementQ1, ElementQ2}

RECURSIVE RSum(_)
RSum(v) == IF v = <<>> THEN RZero ELSE RAdd(v[1], RSum(Tail(v)))

\* C11: for every nodal Lagrange element of order >= 1 and every point X of the
\* grid, the values lbasis returns summed over all local indices are exactly 1,
\* and for each direction the gradient components summed over all local indices
\* are exactly 0.
C11_PartitionOfUnity ==
    (elem \in Lagrange /\ op.kind = "lbasisAll") =>
        /\ res.st = "ok"
        /\ Len(res.u) = LocalDofs(elem, elem)
        /\ RSum(res.u) = ROne
        /\ Len(res.du) = CellDim(RefCell(elem))
        /\ \A k \in 1..Len(res.du) : RSum(res.du[k]) = RZero

\* C11: the nine functions of ElementQ2 were evaluated at the point (2, -1), where
\* some of them are negative and some exceed 1
C11_Q2AwayFromNodes ==
    /\ elem = ElementQ2
    /\ op.kind = "lbasisAll" /\ op.X = <<2, -1>>
    /\ res.st = "ok" /\ Len(res.u) = 9
    /\ \E i \in 1..9 : res.u[i][1] < 0
    /\ \E i \in 1..9 : res.u[i][1] > res.u[i][2]

\* C12: for the P1 triangle assembler, the matrix iasm returns for a bilinear
\* form is square and the vector it returns for a linear form has the same
\* length, the total number of global dofs, which is the number of mesh vertices;
\* the global dof of a vertex is the vertex index; and this holds for every
\* assembly call on the same assembler, each call starting from an empty system.
C12_IasmDimensions ==
    (wrap.cls = "Assembler" /\ elem = ElementTriP1 /\ op.kind = "iasm") =>
        LET nv == wrap.mesh.nv
            nt == Len(wrap.mesh.t)
        IN  /\ res.shape = IF op.form = "bilinear" THEN <<nv, nv>> ELSE <<nv>>
            /\ Len(res.triplets) = IF op.form = "bilinear" THEN 9 * nt ELSE 3 * nt
            /\ \A k \in 1..Len(res.triplets) : \A j \in 1..Len(res.triplets[k]) :
                   res.triplets[k][j] \in 0..(nv - 1)
            /\ \A c \in 1..nt : \A l \in 1..3 :
                   /\ <<wrap.mesh.t[c][l]>> \in
                          {<<res.triplets[k][1]>> : k \in 1..Len(res.triplets)}
                   /\ GlobalDof(wrap, c - 1, l - 1) = wrap.mesh.t[c][l]

\* C12: an assembly call for a linear form on the mesh of four cells and five
\* vertices returned a vector of length 5 made of 12 triplets
C12_LinearCallOnFourCells ==
    /\ elem = ElementTriP1
    /\ wrap.cls = "Assembler" /\ wrap.mesh.nv = 5
    /\ op.kind = "iasm" /\ op.form = "linear"
    /\ res.shape = <<5>>
    /\ Len(res.triplets) = 12

\* C13: for every order p and every index n >= 0, ElementTriPp(p).lbasis(X, n), at
\* a point X of the triangle, ends after finitely many nested lbasis calls: it
\* returns the n-th function, or raises IndexError when n >= nbdofs; it never
\* nests calls without end.
C13_TriPpTerminates ==
    (op.kind = "lbasis" /\ Len(op.X) = 2 /\ op.i >= 0) =>
        /\ res.st # "RuntimeError"
        /\ \/ res.st = "ok" /\ op.i < elem.nbdofs
           \/ res.st = "IndexError" /\ op.i >= elem.nbdofs

\* C13: ElementTriPp(9).lbasis(X, 27), the first interior index of order 9, ran
\* out of nesting depth: its B loop calls lbasis(X, 27) again
C13_OrderNineNestsWithoutEnd ==
    /\ elem = ElementTriPp(9)
    /\ ElementTriPp(6).nbdofs = 28
    /\ op.kind = "lbasis" /\ Len(op.X) = 2 /\ op.i = 27
    /\ res.st = "RuntimeError"

=============================================================================
